---- MODULE Spec2Model ----
(***************************************************************************)
(* A model of auto_subtitle/cli.py: the time codec (format_time), the      *)
(* caption writer (write_word_level_ass) and the orchestration around it   *)
(* (get_audio, get_subtitles, as driven by main).                          *)
(*                                                                         *)
(* Times are integers counting hundredths of a second (the resolution of   *)
(* the H:MM:SS.cc grammar); the arithmetic of format_time is modelled      *)
(* exactly on that grid.  Strings that are compared character by character *)
(* (timestamps) are sequences of code points; the text of an event line is *)
(* the sequence of the pieces the code concatenates.                       *)
(***************************************************************************)
EXTENDS Integers, Sequences, FiniteSets, TLC

VARIABLES
    pc,             \* position of the running call
    exc,            \* the exception in flight, or NoExc
    \* ---- format_time called on its own
    t1, t2,         \* two word times (hundredths of a second)
    r1, r2,         \* the two formatted timestamps
    \* ---- the frame of write_word_level_ass
    segments,       \* parameter: the transcript's segments
    delay,          \* parameter: the delay, in hundredths of a second
    window_size,    \* parameter
    si,             \* number of iterations of `for segment in segments` done
    index,          \* the local counter of line 125
    out,            \* everything written to `file` by this call, in order
    windows,        \* per written Dialogue line: the loop's group, j and word
    \* ---- main / get_audio / get_subtitles
    paths,          \* args["video"]
    output_ass,     \* output_ass or ass_only
    speech,         \* what is spoken in each media file (the transcript shape)
    wav,            \* the temp directory: wav path -> media whose audio it holds
    ai,             \* iterations of get_audio's loop done
    audio_paths,    \* get_audio's dict, in insertion order
    cur,            \* iterations of get_subtitles' loop done
    result,         \* transcribe(audio_path)["segments"] of the current item
    disk,           \* caption files on disk: ass path -> content
    fileOpen,       \* whether the handle `ass` is open
    opens, closes,  \* per item: how often its destination was opened / closed
    subtitles_path, \* get_subtitles' dict, in insertion order
    returned        \* what get_subtitles handed to main

vars == <<pc, exc, t1, t2, r1, r2, segments, delay, window_size, si, index, out,
          windows, paths, output_ass, speech, wav, ai, audio_paths, cur, result,
          disk, fileOpen, opens, closes, subtitles_path, returned>>

timeVars == <<t1, t2, r1, r2>>
writeVars == <<segments, delay, window_size, si, index, out, windows>>
mainVars == <<paths, output_ass, speech, wav, ai, audio_paths, cur, result, disk,
              fileOpen, opens, closes, subtitles_path, returned>>

(***************************************************************************)
(* Bounds of the model and constants of the program.                       *)
(***************************************************************************)
MaxSegs == 2
MaxWords == 4
MaxWindow == 3
MaxItems == 2

SecondsPerHour == 3600
SecondsPerMinute == 60
Hundredths == 100
DefaultWindowSize == 5

Min(a, b) == IF a < b THEN a ELSE b
Max(a, b) == IF a > b THEN a ELSE b

NoExc == [kind |-> "none"]

(***************************************************************************)
(* Python's integer formatting, as code points: '-' 45, '.' 46, '0'..'9'   *)
(* 48..57, ':' 58.                                                         *)
(***************************************************************************)
RECURSIVE DigitsOf(_)
DigitsOf(n) ==
    IF n < 10 THEN <<48 + n>> ELSE DigitsOf(n \div 10) \o <<48 + (n % 10)>>

RECURSIVE ZeroPad(_, _)
ZeroPad(s, w) == IF Len(s) >= w THEN s ELSE ZeroPad(<<48>> \o s, w)

\* f"{n:0wd}": the sign counts towards the width
FormatD(n, w) ==
    IF n < 0 THEN <<45>> \o ZeroPad(DigitsOf(-n), w - 1)
    ELSE ZeroPad(DigitsOf(n), w)

\* a format_time whose seconds field is written with :01d instead of :02d
format_time_unpadded(seconds) ==
    LET hours == seconds \div (SecondsPerHour * Hundredths)
        rem1 == seconds % (SecondsPerHour * Hundredths)
        minutes == rem1 \div (SecondsPerMinute * Hundredths)
        rem2 == rem1 % (SecondsPerMinute * Hundredths)
        secs == rem2 \div Hundredths
        cc == rem2 % Hundredths
    IN  FormatD(hours, 1) \o <<58>> \o FormatD(minutes, 2) \o <<58>>
            \o FormatD(secs, 1) \o <<46>> \o FormatD(cc, 2)

\* format_time(seconds), `seconds` in hundredths: divmod by 3600, by 60 and
\* by 1 (floor division, remainder >= 0), then H:MM:SS.cc
format_time(seconds) ==
    LET hours == seconds \div (SecondsPerHour * Hundredths)
        rem1 == seconds % (SecondsPerHour * Hundredths)
        minutes == rem1 \div (SecondsPerMinute * Hundredths)
        rem2 == rem1 % (SecondsPerMinute * Hundredths)
        secs == rem2 \div Hundredths
        cc == rem2 % Hundredths
    IN  FormatD(hours, 1) \o <<58>> \o FormatD(minutes, 2) \o <<58>>
            \o FormatD(secs, 2) \o <<46>> \o FormatD(cc, 2)

\* Python's str comparison a <= b
RECURSIVE LexLeq(_, _)
LexLeq(a, b) ==
    IF a = <<>> THEN TRUE
    ELSE IF b = <<>> THEN FALSE
    ELSE IF Head(a) < Head(b) THEN TRUE
    ELSE IF Head(a) > Head(b) THEN FALSE
    ELSE LexLeq(Tail(a), Tail(b))

HoursField(ts) == SubSeq(ts, 1, Len(ts) - 9)

(***************************************************************************)
(* Inputs.                                                                 *)
(***************************************************************************)
Hour == SecondsPerHour * Hundredths

\* word times: around 0, 10 seconds, the minute, the hour and the 10-hour mark
TimeGrid ==
    {0, 20, 99, 100, 999, 1000, 5999, 6000, Hour - 1, Hour,
     10 * Hour - 1, 10 * Hour, 10 * Hour + 1, 11 * Hour}

\* --delay: -0.7 s, 0 (the default), 1.5 s
Delays == {-70, 0, 150}

(***************************************************************************)
(* The transcript handed over by the transcription: segments of timed     *)
(* words.  A shape gives, per segment, its number of words, or -1 for a    *)
(* segment that has no 'words' key.  Words follow each other in time.      *)
(***************************************************************************)
Pool == <<"i", "am", "Here">>

WordAt(g) ==
    [word |-> Pool[((g - 1) % Len(Pool)) + 1],
     start |-> 20 + 50 * (g - 1),
     end |-> 20 + 50 * g]

RECURSIVE WordsIn(_, _)
\* number of words in the first s segments of a shape
WordsIn(shape, s) ==
    IF s = 0 THEN 0 ELSE WordsIn(shape, s - 1) + Max(0, shape[s])

Transcript(shape) ==
    [s \in 1..Len(shape) |->
        IF shape[s] < 0 THEN [id |-> s - 1]
        ELSE [id |-> s - 1,
              words |-> [w \in 1..shape[s] |-> WordAt(WordsIn(shape, s - 1) + w)]]]

Shapes == UNION {[1..n -> -1..MaxWords] : n \in 0..MaxSegs}

WindowSizes == -1..MaxWindow

(***************************************************************************)
(* write_word_level_ass                                                    *)
(***************************************************************************)
Raw(s) == [kind |-> "raw", text |-> <<s>>]

\* lines 110-123: the eleven writes of the header
Header ==
    <<Raw("[Script Info]\n"),
      Raw("Title: Auto-generated Subtitle\n"),
      Raw("ScriptType: v4.00+\n"),
      Raw("Collisions: Normal\n"),
      Raw("PlayDepth: 0\n\n"),
      Raw("[V4+ Styles]\n"),
      Raw("Format: Name, Fontname, Fontsize, PrimaryColour, SecondaryColour, OutlineColour, BackColour, Bold, Italic, BorderStyle, Outline, Shadow, Alignment, MarginL, MarginR, MarginV, Encoding\n"),
      Raw("Style: Default, Montserrat, 14, &H00FFFFFF, &H00FFFFFF, &H00000000, &H64000000, 1, 0, 5, 1, 1, 5, 5, 5, 15, 1\n"),
      Raw("Style: Highlight, Montserrat, 14, &H0000FF00, &H00FFFFFF, &H00000000, &H64000000, 1, 0, 5, 1, 1, 5, 5, 5, 15, 1\n"),
      Raw("\n[Events]\n"),
      Raw("Format: Layer, Start, End, Style, Name, MarginL, MarginR, MarginV, Effect, Text\n")>>

\* str.upper() on the words of the pool
Upper(s) ==
    CASE s = "i" -> "I"
      [] s = "am" -> "AM"
      [] s = "Here" -> "HERE"

HighlightOn == "{\\rHighlight}"
HighlightOff == "{\\rDefault}"

RECURSIVE Join(_)
\* ' '.join(items), each item a sequence of pieces
Join(items) ==
    IF items = <<>> THEN <<>>
    ELSE IF Len(items) = 1 THEN items[1]
    ELSE items[1] \o <<" ">> \o Join(Tail(items))

\* line 132
group_text(group) == Join([k \in 1..Len(group) |-> <<Upper(group[k].word)>>])

\* lines 141-149, j counted from 0 as enumerate does
styled_text(group, j) ==
    [k \in 1..Len(group) |->
        IF k - 1 = j
        THEN <<HighlightOn, Upper(group[k].word), HighlightOff>>
        ELSE <<Upper(group[k].word)>>]

\* lines 137-138 and 152
DialogueLine(group, j, d) ==
    [kind |-> "Dialogue",
     layer |-> 0,
     start |-> format_time(group[j + 1].start + d),
     end |-> format_time(group[j + 1].end + d),
     style |-> "Default",
     text |-> Join(styled_text(group, j))]

\* range(0, stop, step) for a step other than 0, as the sequence it yields
RangeFrom0(stop, step) ==
    IF step > 0
    THEN [m \in 1..((stop + step - 1) \div step) |-> (m - 1) * step]
    ELSE <<>>

\* s[lo:hi] for 0 <= lo <= hi
Slice(s, lo, hi) == SubSeq(s, lo + 1, Min(hi, Len(s)))

\* a group one word too long: words[i:i + window_size + 1]
GroupsOfOverlapping(words, k) ==
    LET starts == RangeFrom0(Len(words), k)
    IN  [m \in 1..Len(starts) |-> Slice(words, starts[m], starts[m] + k + 1)]

\* lines 130-131: the groups of one segment
GroupsOf(words, k) ==
    LET starts == RangeFrom0(Len(words), k)
    IN  [m \in 1..Len(starts) |-> Slice(words, starts[m], starts[m] + k)]

RECURSIVE Flatten(_)
Flatten(seqs) == IF seqs = <<>> THEN <<>> ELSE Head(seqs) \o Flatten(Tail(seqs))

\* every line highlights the first word of its group
GroupLinesFirstWord(group, d) ==
    [j1 \in 1..Len(group) |->
        [DialogueLine(group, 0, d) EXCEPT
            !.start = format_time(group[j1].start + d),
            !.end = format_time(group[j1].end + d)]]

\* lines 135-152: the lines written for one group
GroupLines(group, d) ==
    [j1 \in 1..Len(group) |-> DialogueLine(group, j1 - 1, d)]

\* the loop's variables at each write of line 152
GroupWindows(group) ==
    [j1 \in 1..Len(group) |-> [group |-> group, j |-> j1 - 1, word |-> group[j1]]]

SegmentLines(words, d, k) ==
    LET groups == GroupsOf(words, k)
    IN  Flatten([m \in 1..Len(groups) |-> GroupLines(groups[m], d)])

SegmentWindows(words, k) ==
    LET groups == GroupsOf(words, k)
    IN  Flatten([m \in 1..Len(groups) |-> GroupWindows(groups[m])])

\* lines 110-125
WriteHeader ==
    /\ pc = "header"
    /\ out' = out \o Header
    /\ index' = 1
    /\ si' = 0
    /\ pc' = "segments"
    /\ UNCHANGED <<exc, timeVars, segments, delay, window_size, windows, mainVars>>

\* lines 126-153: one iteration of `for segment in segments`
LoopSegment ==
    /\ pc = "segments"
    /\ si < Len(segments)
    /\ LET segment == segments[si + 1] IN
        IF "words" \notin DOMAIN segment
        THEN \* segment['words'] raises
             /\ exc' = [kind |-> "KeyError", arg |-> "words"]
             /\ pc' = "write_raised"
             /\ UNCHANGED <<si, index, out, windows>>
        ELSE IF window_size = 0
        THEN \* range() arg 3 must not be zero
             /\ exc' = [kind |-> "ValueError", arg |-> "range"]
             /\ pc' = "write_raised"
             /\ UNCHANGED <<si, index, out, windows>>
        ELSE LET lines == SegmentLines(segment.words, delay, window_size) IN
             /\ out' = out \o lines
             /\ windows' = windows \o SegmentWindows(segment.words, window_size)
             /\ index' = index + Len(lines)
             /\ si' = si + 1
             /\ UNCHANGED <<pc, exc>>
    /\ UNCHANGED <<timeVars, segments, delay, window_size, mainVars>>

\* the loop is exhausted: the function returns None
WriteReturn ==
    /\ pc = "segments"
    /\ si = Len(segments)
    /\ pc' = "write_returned"
    /\ UNCHANGED <<exc, timeVars, writeVars, mainVars>>

IdleTime == t1 = 0 /\ t2 = 0 /\ r1 = <<>> /\ r2 = <<>>

IdleMain ==
    /\ paths = <<>> /\ output_ass = FALSE /\ speech = <<>> /\ wav = <<>>
    /\ ai = 0 /\ audio_paths = <<>> /\ cur = 0 /\ result = <<>>
    /\ disk = <<>> /\ fileOpen = FALSE /\ opens = <<>> /\ closes = <<>>
    /\ subtitles_path = <<>> /\ returned = [ok |-> FALSE, map |-> <<>>]

IdleWrite ==
    /\ segments = <<>> /\ delay = 0 /\ window_size = DefaultWindowSize
    /\ si = 0 /\ index = 0 /\ out = <<>> /\ windows = <<>>

\* write_word_level_ass(segments, delay, file, window_size) called on a
\* fresh in-memory file
InitWrite ==
    /\ pc = "header" /\ exc = NoExc
    /\ IdleTime /\ IdleMain
    /\ \E shape \in Shapes : segments = Transcript(shape)
    /\ delay \in Delays
    /\ window_size \in WindowSizes
    /\ si = 0 /\ index = 0 /\ out = <<>> /\ windows = <<>>

NextWrite == WriteHeader \/ LoopSegment \/ WriteReturn

SpecWrite == InitWrite /\ [][NextWrite]_vars

(***************************************************************************)
(* Properties of write_word_level_ass.  Segments 1..si have been written;  *)
(* each of them had a word list, or the loop would have raised.            *)
(***************************************************************************)
RECURSIVE Off(_)
\* number of words in segments 1..s, all of them with a word list
Off(s) == IF s = 0 THEN 0 ELSE Off(s - 1) + Len(segments[s].words)

RECURSIVE WellFormedWords(_)
\* number of words in those of segments 1..s that have a word list
WellFormedWords(s) ==
    IF s = 0 THEN 0
    ELSE WellFormedWords(s - 1)
            + (IF "words" \in DOMAIN segments[s] THEN Len(segments[s].words) ELSE 0)

\* the block of word i (counted from 0): words[k*floor(i/k) .. min(n, k*(floor(i/k)+1)))
Block(words, i, k) ==
    SubSeq(words, k * (i \div k) + 1, Min(Len(words), k * ((i \div k) + 1)))

\* the sliding window of word i: words[max(0, i-k+1) .. min(n, i+k))
Sliding(words, i, k) ==
    SubSeq(words, Max(0, i - k + 1) + 1, Min(Len(words), i + k))

StripMarkers(text) ==
    SelectSeq(text, LAMBDA piece : piece \notin {HighlightOn, HighlightOff})

HeaderWritten == IF pc = "header" THEN 0 ELSE Len(Header)

\* the Dialogue line and the loop variables of word i of segment s
LineOf(s, i) == out[HeaderWritten + Off(s - 1) + i + 1]
WindowOfWord(s, i) == windows[Off(s - 1) + i + 1]

\* C1: block policy.  For window_size k >= 1, every segment of n words gets
\* exactly n event lines; the group on the line of word i is
\* words[k*floor(i/k) .. min(n, k*(floor(i/k)+1))), of 1..k words; the lines
\* of words i and i+1 show the same group iff floor(i/k) = floor((i+1)/k).
C1_BlockPolicy ==
    window_size >= 1 =>
        /\ Len(windows) = Off(si)
        /\ Len(out) = HeaderWritten + Off(si)
        /\ \A s \in 1..si :
            LET words == segments[s].words
                n == Len(words)
            IN  \A i \in 0..(n - 1) :
                    LET w == WindowOfWord(s, i) IN
                    /\ w.word = words[i + 1]
                    /\ w.group = Block(words, i, window_size)
                    /\ Len(w.group) >= 1
                    /\ Len(w.group) <= window_size
                    /\ StripMarkers(LineOf(s, i).text) = group_text(Block(words, i, window_size))
                    /\ (i + 1 < n) =>
                        ((w.group = WindowOfWord(s, i + 1).group)
                            <=> (i \div window_size = (i + 1) \div window_size))

\* a returned call with k = 2 and a segment of three words (a full block and
\* a partial one) after an empty segment
C1_Witness ==
    /\ pc = "write_returned"
    /\ window_size = 2
    /\ Len(segments) = 2
    /\ Len(segments[1].words) = 0
    /\ Len(segments[2].words) = 3
    /\ Len(windows) = 3
    /\ windows[2].group # windows[3].group

\* C2: a segment without 'words' is skipped: the call does not raise, the
\* malformed segments give no event line and every well-formed segment,
\* also after a malformed one, gives one event line per word.
C2_MalformedSkipped ==
    window_size >= 1 =>
        /\ pc # "write_raised"
        /\ (pc = "write_returned") =>
                Len(out) = Len(Header) + WellFormedWords(Len(segments))

\* C3: a window size <= 0 is rejected before anything is written: the call
\* writes nothing and never returns normally.
C3_InvalidWindowSizeRejected ==
    window_size <= 0 => (out = <<>> /\ pc # "write_returned")

\* C4: the start and end of every event line encode max(0, t + delay), and
\* no timestamp carries a minus sign.
C4_ClampedAtZero ==
    \A p \in 1..Len(windows) :
        LET line == out[Len(Header) + p]
            word == windows[p].word
        IN  /\ line.start = format_time(Max(0, word.start + delay))
            /\ line.end = format_time(Max(0, word.end + delay))
            /\ \A c \in 1..Len(line.start) : line.start[c] # 45
            /\ \A c \in 1..Len(line.end) : line.end[c] # 45

\* C9: sliding policy.  For window_size k >= 1 the window emitted for word i
\* has the members words[max(0, i-k+1) .. min(n, i+k)), its active word is
\* words[i], and its size is at most 2k-1 and at most n.
C9_SlidingPolicy ==
    window_size >= 1 =>
        \A s \in 1..si :
            LET words == segments[s].words
                n == Len(words)
            IN  \A i \in 0..(n - 1) :
                    LET w == WindowOfWord(s, i) IN
                    /\ w.word = words[i + 1]
                    /\ w.group = Sliding(words, i, window_size)
                    /\ Len(w.group) <= 2 * window_size - 1
                    /\ Len(w.group) <= n

\* C10: the output is the header, once and first, then one Dialogue line per
\* word in segment order and word order; the line of word j of a block has
\* that word's start and end (plus the delay), its text is the upper-cased
\* words of the block joined by single spaces, with exactly the word at
\* position j between the Highlight and Default markers.
C10_OutputLayout ==
    /\ (pc = "header") => out = <<>>
    /\ (pc # "header") =>
        /\ SubSeq(out, 1, Len(Header)) = Header
        /\ \A p \in (Len(Header) + 1)..Len(out) : out[p].kind = "Dialogue"
    /\ (window_size >= 1) =>
        /\ (pc = "write_returned") => Len(out) = Len(Header) + Off(Len(segments))
        /\ \A s \in 1..si :
            LET words == segments[s].words IN
            \A i \in 0..(Len(words) - 1) :
                LET line == LineOf(s, i)
                    blk == Block(words, i, window_size)
                    j == i % window_size
                    plain == StripMarkers(line.text)
                IN  /\ line.start = format_time(words[i + 1].start + delay)
                    /\ line.end = format_time(words[i + 1].end + delay)
                    /\ Len(plain) = 2 * Len(blk) - 1
                    /\ \A m \in 1..Len(blk) : plain[2 * m - 1] = Upper(blk[m].word)
                    /\ \A m \in 1..(Len(blk) - 1) : plain[2 * m] = " "
                    /\ {p \in 1..Len(line.text) : line.text[p] = HighlightOn} = {2 * j + 1}
                    /\ {p \in 1..Len(line.text) : line.text[p] = HighlightOff} = {2 * j + 3}
                    /\ line.text[2 * j + 2] = Upper(words[i + 1].word)

\* a returned call, delayed, with k = 2, over a segment of one word and a
\* segment of three: the last line highlights the first word of a block
C10_Witness ==
    /\ pc = "write_returned"
    /\ window_size = 2
    /\ delay = 150
    /\ Len(segments) = 2
    /\ Len(segments[1].words) = 1
    /\ Len(segments[2].words) = 3
    /\ Len(out) = Len(Header) + 4
    /\ out[Len(out)].text = <<HighlightOn, "I", HighlightOff>>
    /\ out[Len(out) - 1].text = <<"AM", " ", HighlightOn, "HERE", HighlightOff>>
    /\ out[Len(out) - 1].start = format_time(120 + 150)

(***************************************************************************)
(* main, get_audio and get_subtitles.  A path is a directory, a stem and   *)
(* an extension.                                                           *)
(***************************************************************************)
MediaPaths ==
    {[dir |-> "a", stem |-> "x", ext |-> "mp4"],
     [dir |-> "b", stem |-> "x", ext |-> "mp4"],
     [dir |-> "a", stem |-> "y", ext |-> "mkv"]}

NoMedia == [dir |-> "", stem |-> "", ext |-> ""]

TempDir == "tmp"
OutputDir == "out"

\* utils.filename: the base name of the path without its extension
filename(path) == path.stem

\* line 78
WavPath(path) == [dir |-> TempDir, stem |-> filename(path), ext |-> "wav"]

\* lines 93-94
AssPath(path, outputAss) ==
    [dir |-> IF outputAss THEN OutputDir ELSE TempDir,
     stem |-> filename(path), ext |-> "ass"]

WavPaths == {WavPath(p) : p \in MediaPaths}
AssPaths == {AssPath(p, b) : p \in MediaPaths, b \in BOOLEAN}

\* what is spoken in a media file, as a transcript shape
SpeechShapes == {<<2>>, <<1, -1, 1>>, <<0, 3>>}

\* lists of distinct media paths, at least one (nargs="+")
PathLists ==
    {l \in UNION {[1..n -> MediaPaths] : n \in 1..MaxItems} :
        \A i, j \in 1..Len(l) : i # j => l[i] # l[j]}

\* a dict in insertion order: d[key] = value
DictSet(d, key, value) ==
    IF \E i \in 1..Len(d) : d[i].key = key
    THEN [i \in 1..Len(d) |->
            IF d[i].key = key THEN [key |-> key, value |-> value] ELSE d[i]]
    ELSE Append(d, [key |-> key, value |-> value])

DictHas(d, key) == \E i \in 1..Len(d) : d[i].key = key
DictGet(d, key) == d[CHOOSE i \in 1..Len(d) : d[i].key = key].value

\* the transcription of an audio file: the transcript of the media whose
\* audio the file holds
transcribe(audio_path) == Transcript(speech[wav[audio_path]])

\* the item get_subtitles is working on
CurPath == audio_paths[cur + 1].key
CurAudio == audio_paths[cur + 1].value
CurAss == AssPath(CurPath, output_ass)

InitMain ==
    /\ pc = "get_audio" /\ exc = NoExc
    /\ IdleTime
    /\ paths \in PathLists
    /\ output_ass \in BOOLEAN
    /\ delay \in Delays
    /\ speech \in [MediaPaths -> SpeechShapes]
    /\ wav = [f \in WavPaths |-> NoMedia]
    /\ disk = [f \in AssPaths |-> [exists |-> FALSE, data |-> <<>>]]
    /\ ai = 0 /\ audio_paths = <<>> /\ cur = 0 /\ result = <<>>
    /\ fileOpen = FALSE
    /\ opens = [i \in 1..Len(paths) |-> 0]
    /\ closes = [i \in 1..Len(paths) |-> 0]
    /\ subtitles_path = <<>>
    /\ returned = [ok |-> FALSE, map |-> <<>>]
    /\ segments = <<>> /\ window_size = DefaultWindowSize
    /\ si = 0 /\ index = 0 /\ out = <<>> /\ windows = <<>>

\* lines 76-85: one iteration of get_audio's loop
GetAudio ==
    /\ pc = "get_audio"
    /\ ai < Len(paths)
    /\ LET path == paths[ai + 1]
           output_path == WavPath(path)
       IN  /\ wav' = [wav EXCEPT ![output_path] = path]
           /\ audio_paths' = DictSet(audio_paths, path, output_path)
    /\ ai' = ai + 1
    /\ UNCHANGED <<pc, exc, timeVars, writeVars, paths, output_ass, speech, cur,
                   result, disk, fileOpen, opens, closes, subtitles_path, returned>>

\* line 87 and the call of line 50
GetAudioReturn ==
    /\ pc = "get_audio"
    /\ ai = Len(paths)
    /\ pc' = "get_subtitles"
    /\ cur' = 0
    /\ subtitles_path' = <<>>
    /\ UNCHANGED <<exc, timeVars, writeVars, paths, output_ass, speech, wav, ai,
                   audio_paths, result, disk, fileOpen, opens, closes, returned>>

\* lines 92-99
Transcribe ==
    /\ pc = "get_subtitles"
    /\ cur < Len(audio_paths)
    /\ result' = transcribe(CurAudio)
    /\ pc' = "open"
    /\ UNCHANGED <<exc, timeVars, writeVars, paths, output_ass, speech, wav, ai,
                   audio_paths, cur, disk, fileOpen, opens, closes,
                   subtitles_path, returned>>

\* line 101, open() succeeds: the file is created or truncated; line 102
\* calls write_word_level_ass(result["segments"], delay, file=ass)
Open ==
    /\ pc = "open"
    /\ disk' = [disk EXCEPT ![CurAss] = [exists |-> TRUE, data |-> <<>>]]
    /\ fileOpen' = TRUE
    /\ opens' = [opens EXCEPT ![cur + 1] = @ + 1]
    /\ segments' = result
    /\ window_size' = DefaultWindowSize
    /\ si' = 0 /\ index' = 0 /\ out' = <<>> /\ windows' = <<>>
    /\ pc' = "header"
    /\ UNCHANGED <<exc, timeVars, delay, paths, output_ass, speech, wav, ai,
                   audio_paths, cur, result, closes, subtitles_path, returned>>

\* line 101, open() raises OSError: nothing catches it in get_subtitles or main
OpenFails ==
    /\ pc = "open"
    /\ exc' = [kind |-> "OSError", filename |-> CurAss]
    /\ pc' = "raised"
    /\ UNCHANGED <<timeVars, writeVars, mainVars>>

\* the exception leaves without the file being closed
WithExitRaisingNoClose ==
    /\ pc = "write_raised"
    /\ fileOpen
    /\ pc' = "raised"
    /\ UNCHANGED <<exc, timeVars, writeVars, mainVars>>

\* lines 101-102, the with block is left by an exception: the file is
\* flushed and closed, the exception goes on, out of get_subtitles and main
WithExitRaising ==
    /\ pc = "write_raised"
    /\ fileOpen
    /\ disk' = [disk EXCEPT ![CurAss].data = out]
    /\ fileOpen' = FALSE
    /\ closes' = [closes EXCEPT ![cur + 1] = @ + 1]
    /\ pc' = "raised"
    /\ UNCHANGED <<exc, timeVars, writeVars, paths, output_ass, speech, wav, ai,
                   audio_paths, cur, result, opens, subtitles_path, returned>>

\* lines 101-104, the with block is left normally: the file is flushed and
\* closed, and the item's entry is recorded
WithExit ==
    /\ pc = "write_returned"
    /\ fileOpen
    /\ disk' = [disk EXCEPT ![CurAss].data = out]
    /\ fileOpen' = FALSE
    /\ closes' = [closes EXCEPT ![cur + 1] = @ + 1]
    /\ subtitles_path' = DictSet(subtitles_path, CurPath, CurAss)
    /\ cur' = cur + 1
    /\ pc' = "get_subtitles"
    /\ UNCHANGED <<exc, timeVars, writeVars, paths, output_ass, speech, wav, ai,
                   audio_paths, result, opens, returned>>

\* line 106
GetSubtitlesReturn ==
    /\ pc = "get_subtitles"
    /\ cur = Len(audio_paths)
    /\ returned' = [ok |-> TRUE, map |-> subtitles_path]
    /\ pc' = "done"
    /\ UNCHANGED <<exc, timeVars, writeVars, paths, output_ass, speech, wav, ai,
                   audio_paths, cur, result, disk, fileOpen, opens, closes,
                   subtitles_path>>

Next ==
    \/ GetAudio \/ GetAudioReturn
    \/ Transcribe \/ Open \/ OpenFails
    \/ WriteHeader \/ LoopSegment \/ WriteReturn
    \/ WithExit \/ WithExitRaising
    \/ GetSubtitlesReturn

Spec == InitMain /\ [][Next]_vars

(***************************************************************************)
(* Properties of get_audio and get_subtitles.                              *)
(***************************************************************************)
RECURSIVE Rendered(_, _, _, _)
\* the header and the event lines of the first s segments
Rendered(segs, s, d, k) ==
    IF s = 0 THEN Header
    ELSE Rendered(segs, s - 1, d, k) \o SegmentLines(segs[s].words, d, k)

InWith == {"header", "segments", "write_returned", "write_raised"}

\* C6: the destination of an item is opened once and closed exactly once on
\* every way out of the item; when rendering segment s fails after segments
\* 0..s-1 were written, the file is closed and holds the header and the
\* event lines of segments 0..s-1, in order.
C6_ReleasedOnEveryPath ==
    /\ \A i \in 1..Len(paths) : opens[i] <= 1 /\ closes[i] <= opens[i]
    /\ fileOpen <=> (pc \in InWith)
    /\ \A i \in 1..cur : opens[i] = 1 /\ closes[i] = 1
    /\ (pc = "get_subtitles" /\ cur >= 1) =>
            disk[AssPath(audio_paths[cur].key, output_ass)] =
                [exists |-> TRUE, data |-> out]
    /\ (pc = "raised") => closes[cur + 1] = opens[cur + 1]
    /\ (pc = "raised" /\ exc.kind = "KeyError") =>
        /\ opens[cur + 1] = 1
        /\ si < Len(result)
        /\ "words" \notin DOMAIN result[si + 1]
        /\ \A r \in 1..si : "words" \in DOMAIN result[r]
        /\ disk[CurAss] =
            [exists |-> TRUE,
             data |-> Rendered(result, si, delay, DefaultWindowSize)]

\* the second item's second segment has no words: its file is closed and
\* holds the header and the line of its first segment
C6_Witness ==
    /\ pc = "raised"
    /\ exc.kind = "KeyError"
    /\ cur = 1
    /\ si = 1
    /\ closes[2] = 1
    /\ ~fileOpen
    /\ Len(disk[CurAss].data) = Len(Header) + 1
    /\ disk[CurAss].data[Len(Header) + 1].kind = "Dialogue"

\* C7: when the destination of item m cannot be opened, the failure names
\* the path, the files of the items before m are still there, and the
\* entries of the other items, before and after m, are produced for the
\* caller.
C7_WriteFailureLocal ==
    (pc = "raised" /\ exc.kind = "OSError") =>
        /\ exc.filename = CurAss
        /\ \A i \in 1..cur : disk[AssPath(paths[i], output_ass)].exists
        /\ \A i \in (1..Len(paths)) \ {cur + 1} : DictHas(returned.map, paths[i])

\* C8: after get_audio and get_subtitles every media path is mapped to a
\* caption file rendered from the transcript of its own audio, its audio
\* file still holds its own audio, and no two media paths share a caption
\* file.
C8_NoSharedState ==
    (pc = "done") =>
        /\ returned.ok
        /\ \A i \in 1..Len(paths) :
            /\ DictHas(audio_paths, paths[i])
            /\ wav[DictGet(audio_paths, paths[i])] = paths[i]
            /\ DictHas(returned.map, paths[i])
            /\ disk[DictGet(returned.map, paths[i])].data =
                    LET segs == Transcript(speech[paths[i]])
                    IN  Rendered(segs, Len(segs), delay, DefaultWindowSize)
        /\ \A i, j \in 1..Len(paths) :
            i # j => DictGet(returned.map, paths[i]) # DictGet(returned.map, paths[j])

(***************************************************************************)
(* format_time on its own: two times, formatted.                           *)
(***************************************************************************)
InitTime ==
    /\ pc = "format_time" /\ exc = NoExc
    /\ t1 \in TimeGrid /\ t2 \in TimeGrid
    /\ r1 = <<>> /\ r2 = <<>>
    /\ IdleWrite /\ IdleMain

FormatTimes ==
    /\ pc = "format_time"
    /\ r1' = format_time(t1)
    /\ r2' = format_time(t2)
    /\ pc' = "formatted"
    /\ UNCHANGED <<exc, t1, t2, writeVars, mainVars>>

NextTime == FormatTimes

SpecTime == InitTime /\ [][NextTime]_vars

\* C5 (as stated): format_time is monotonic under string comparison:
\* t1 < t2 implies format_time(t1) <= format_time(t2) lexicographically.
C5_Original == (pc = "formatted" /\ t1 < t2) => LexLeq(r1, r2)

\* C5 (amended): for times 0 <= t1 < t2 whose hours fields have the same
\* number of digits (in particular both below 10 hours), format_time(t1) is
\* lexicographically <= format_time(t2).
C5_MonotonicSameWidth ==
    (pc = "formatted" /\ 0 <= t1 /\ t1 < t2
        /\ Len(HoursField(r1)) = Len(HoursField(r2)))
    => LexLeq(r1, r2)

\* two times in different minutes of the same hour, both formatted
C5_Witness ==
    /\ pc = "formatted" /\ t1 < t2
    /\ Len(HoursField(r1)) = Len(HoursField(r2))
    /\ r1 # r2
    /\ t2 >= 10 * Hour

====
